---- MODULE Spec2Model ----
(***************************************************************************)
(* State-machine model of the evolutionary query population of             *)
(* src/src/python/queries.py (class Queries, built on Population).         *)
(*                                                                         *)
(* Query objects are heap objects with an identity: the two lists          *)
(* self.queries and self._individuals hold object ids, heap maps the id    *)
(* of every object one of the two lists still holds to its attributes.     *)
(* An object neither list holds is garbage: its id is free again.          *)
(***************************************************************************)
EXTENDS Integers, Sequences, FiniteSets

\* ---------------------------------------------------------------- bounds
MaxInit == 3        \* largest population handed to the constructor
MaxClone == 1       \* recombine is explored for populations up to this size
MaxFitness == 1     \* fitness values are 0 .. MaxFitness

MaxPop == IF MaxInit > 2 * MaxClone THEN MaxInit ELSE 2 * MaxClone
MaxObjs == 2 * MaxPop

Words == {"x", "y"}
Fitness == 0 .. MaxFitness
\* the term sequences of a Query: no term, or one word of the pool
TermSeqs == {<<>>} \cup {<<w>> : w \in Words}
Modes == {"CLONE", "OTHER"}
None == "None"

VARIABLES queries, individuals, shared, heap, op, ret

vars == <<queries, individuals, shared, heap, op, ret>>

\* ---------------------------------------------------------------- helpers
Range(s) == {s[i] : i \in 1 .. Len(s)}

Call(name, arg, outcome, n, sizes) ==
    [name |-> name, arg |-> arg, outcome |-> outcome, n |-> n, sizes |-> sizes]

\* the attributes of the objects the lists q and ind still hold
Reach(h, q, ind) == [id \in Range(q) \cup Range(ind) |-> h[id]]

\* Query.size(): number of terms
size_of(o) == Len(o.terms)

\* repr(query): the canonical representation, term content only
repr(o) == o.terms

\* Query.mutate(words): any term sequence over the word pool may result
mutations == TermSeqs

\* sorted(l, key = fitness, reverse = reverse): Python's stable sort
sorted(l, h, reverse) ==
    LET Precedes(a, b) == IF reverse THEN h[a].fitness > h[b].fitness
                                     ELSE h[a].fitness < h[b].fitness
        ins(s, e) ==
            LET k == Cardinality({j \in 1 .. Len(s) : ~Precedes(e, s[j])})
            IN  SubSeq(s, 1, k) \o <<e>> \o SubSeq(s, k + 1, Len(s))
        srt[i \in 0 .. Len(l)] == IF i = 0 THEN <<>> ELSE ins(srt[i - 1], l[i])
    IN  srt[Len(l)]

\* @sorter(key = fitness, reverse = True) applied to the list a method returns
sorter(l, h) == sorted(l, h, TRUE)

\* the k smallest ids no list holds
fresh(used, k) ==
    LET nxt[i \in 0 .. k] ==
            IF i = 0 THEN <<>>
            ELSE Append(nxt[i - 1],
                        CHOOSE id \in 1 .. MaxObjs :
                            /\ id \notin used \cup Range(nxt[i - 1])
                            /\ \A o \in 1 .. id - 1 : o \in used \cup Range(nxt[i - 1]))
    IN  nxt[k]

\* ---------------------------------------------------------------- methods
\* body of sorted_queries(): the list the decorator sorts
sorted_queries_stale(q, ind) == ind

sorted_queries(q, ind) == q

\* average_score(): a float, kept as the reduced fraction <<numerator, denominator>>
fraction(a, b) ==
    LET g == CHOOSE d \in 1 .. b : /\ a % d = 0 /\ b % d = 0
                                   /\ \A e \in d + 1 .. b : ~(a % e = 0 /\ b % e = 0)
    IN  <<a \div g, b \div g>>

average_score_floor(q, h) ==
    LET sum[i \in 0 .. Len(q)] == IF i = 0 THEN 0 ELSE sum[i - 1] + h[q[i]].fitness
    IN  IF Len(q) = 0 THEN <<0, 1>> ELSE <<sum[Len(q)] \div Len(q), 1>>

average_score(q, h) ==
    LET sum[i \in 0 .. Len(q)] == IF i = 0 THEN 0 ELSE sum[i - 1] + h[q[i]].fitness
    IN  IF Len(q) = 0 THEN <<0, 1>> ELSE fraction(sum[Len(q)], Len(q))

\* [copy.deepcopy(query) for query in self.queries]
clones_aliased(q, h, used) == [ids |-> q, heap |-> h]

clones(q, h, used) ==
    LET new == fresh(used, Len(q))
    IN  [ids  |-> new,
         heap |-> [id \in DOMAIN h \cup Range(new) |->
                      IF id \in DOMAIN h THEN h[id]
                      ELSE h[q[CHOOSE i \in 1 .. Len(q) : new[i] = id]]]]

\* recombine(mode)
recombine_ignoring(q, h, used, mode) ==
    IF mode = "CLONE"
    THEN LET c == clones(q, h, used)
         IN  [exc |-> None, queries |-> q \o c.ids, heap |-> c.heap]
    ELSE [exc |-> None, queries |-> q, heap |-> h]

recombine(q, h, used, mode) ==
    IF mode = "CLONE"
    THEN LET c == clones(q, h, used)
         IN  [exc |-> None, queries |-> q \o c.ids, heap |-> c.heap]
    ELSE \* logging.ERROR is the integer 40: calling it raises before exit(1)
         [exc |-> "TypeError", queries |-> q, heap |-> h]

\* _without_lowest(l, key = fitness)
without_lowest_one(l, h) ==
    LET l_sorted == sorted(l, h, FALSE)
    IN  [exc |-> None,
         val |-> SelectSeq(l, LAMBDA e : e # l_sorted[1])]

without_lowest_eager(l, h) ==
    LET l_sorted == sorted(l, h, FALSE)
    IN  IF l = <<>> THEN [exc |-> "IndexError", val |-> l]
        ELSE [exc |-> None,
              val |-> SelectSeq(l, LAMBDA e : h[e].fitness > h[l_sorted[1]].fitness)]

without_lowest(l, h) ==
    LET l_sorted == sorted(l, h, FALSE)
    IN  [exc |-> None,
         val |-> SelectSeq(l, LAMBDA e : h[e].fitness > h[l_sorted[1]].fitness)]

\* the loop of mutate(): f[i] is what the i-th call of query.mutate leaves
mutate_loop_unfiltered(q, h, f) ==
    LET step[i \in 0 .. Len(q)] ==
            IF i = 0 THEN [new_queries |-> <<>>, heap |-> h]
            ELSE LET hp == [step[i - 1].heap EXCEPT ![q[i]].terms = f[i]]
                 IN  [new_queries |-> Append(step[i - 1].new_queries, q[i]),
                      heap |-> hp]
    IN  step[Len(q)]

mutate_loop(q, h, f) ==
    LET step[i \in 0 .. Len(q)] ==
            IF i = 0 THEN [new_queries |-> <<>>, heap |-> h]
            ELSE LET hp == [step[i - 1].heap EXCEPT ![q[i]].terms = f[i]]
                 IN  [new_queries |-> IF size_of(hp[q[i]]) > 0
                                      THEN Append(step[i - 1].new_queries, q[i])
                                      ELSE step[i - 1].new_queries,
                      heap |-> hp]
    IN  step[Len(q)]

\* random.sample(list(range(0, n)), k): the index sets it can draw
sample_clamped(n, k) ==
    IF k < 0 THEN [exc |-> "ValueError", draws |-> {}]
    ELSE [exc |-> None,
          draws |-> {S \in SUBSET (1 .. n) : Cardinality(S) = IF k > n THEN n ELSE k}]

sample(n, k) ==
    IF k < 0 \/ k > n THEN [exc |-> "ValueError", draws |-> {}]
    ELSE [exc |-> None, draws |-> {S \in SUBSET (1 .. n) : Cardinality(S) = k}]

\* the comprehension of random_purge(): drop the drawn indices
purge(q, drawn) ==
    LET keep[i \in 0 .. Len(q)] ==
            IF i = 0 THEN <<>>
            ELSE IF i \in drawn THEN keep[i - 1] ELSE Append(keep[i - 1], q[i])
    IN  keep[Len(q)]

\* the loop of remove_duplicates()
remove_duplicates_keyed_on_fitness(q, h) ==
    LET step[i \in 0 .. Len(q)] ==
            IF i = 0 THEN [new_queries |-> <<>>, seen_queries |-> {}]
            ELSE LET key == <<repr(h[q[i]]), h[q[i]].fitness>>
                 IN  IF key \notin step[i - 1].seen_queries
                     THEN [new_queries |-> Append(step[i - 1].new_queries, q[i]),
                           seen_queries |-> step[i - 1].seen_queries \cup {key}]
                     ELSE step[i - 1]
    IN  step[Len(q)].new_queries

remove_duplicates(q, h) ==
    LET step[i \in 0 .. Len(q)] ==
            IF i = 0 THEN [new_queries |-> <<>>, seen_queries |-> {}]
            ELSE IF repr(h[q[i]]) \notin step[i - 1].seen_queries
                 THEN [new_queries |-> Append(step[i - 1].new_queries, q[i]),
                       seen_queries |-> step[i - 1].seen_queries \cup {repr(h[q[i]])}]
                 ELSE step[i - 1]
    IN  step[Len(q)].new_queries

\* ---------------------------------------------------------------- state machine
\* Queries(words, queries): Population keeps the list, self.queries names the same list
Construct(TS, FS) ==
    \E n \in 0 .. MaxInit :
        \E content \in [1 .. n -> [terms : TS, fitness : FS]] :
            /\ queries = [i \in 1 .. n |-> i]
            /\ individuals = queries
            /\ shared = TRUE
            /\ heap = content
            /\ op = Call("init", None, None, n, <<>>)
            /\ ret = None

Init == Construct(TermSeqs, Fitness)

\* self.queries = <a new list>: the Population list is left behind
Rebind(new, h) ==
    /\ queries' = new
    /\ individuals' = individuals
    /\ shared' = FALSE
    /\ heap' = Reach(h, new, individuals)

Size ==
    /\ ret' = Len(queries)
    /\ op' = Call("size", None, None, Len(queries), <<>>)
    /\ UNCHANGED <<queries, individuals, shared, heap>>

SortedQueries ==
    /\ ret' = sorter(sorted_queries(queries, individuals), heap)
    /\ op' = Call("sorted_queries", None, None, Len(queries), <<>>)
    /\ UNCHANGED <<queries, individuals, shared, heap>>

AverageScore ==
    /\ ret' = average_score(queries, heap)
    /\ op' = Call("average_score", None, None, Len(queries), <<>>)
    /\ UNCHANGED <<queries, individuals, shared, heap>>

Recombine(mode) ==
    /\ mode = "CLONE" => Len(queries) <= MaxClone
    /\ LET r == recombine(queries, heap, Range(queries) \cup Range(individuals), mode)
       IN  /\ queries' = r.queries
           \* extend() changes the list in place: both names see it while they share it
           /\ individuals' = IF shared THEN r.queries ELSE individuals
           /\ heap' = Reach(r.heap, r.queries, IF shared THEN r.queries ELSE individuals)
           /\ op' = Call("recombine", mode, r.exc, Len(queries), <<>>)
    /\ ret' = None
    /\ UNCHANGED shared

Mutate ==
    \E f \in [1 .. Len(queries) -> mutations] :
        LET r == mutate_loop(queries, heap, f)
        IN  /\ Rebind(r.new_queries, r.heap)
            /\ op' = Call("mutate", None, None, Len(queries),
                          [i \in 1 .. Len(queries) |-> size_of(r.heap[queries[i]])])
            /\ ret' = None

Select ==
    LET r == without_lowest(queries, heap)
    IN  /\ IF r.exc = None THEN Rebind(r.val, heap)
                           ELSE UNCHANGED <<queries, individuals, shared, heap>>
        /\ op' = Call("select", None, r.exc, Len(queries), <<>>)
        /\ ret' = None

RandomPurge(k) ==
    LET s == sample(Len(queries), k)
    IN  /\ IF s.exc = None
           THEN \E drawn \in s.draws : Rebind(purge(queries, drawn), heap)
           ELSE UNCHANGED <<queries, individuals, shared, heap>>
        /\ op' = Call("random_purge", k, s.exc, Len(queries), <<>>)
        /\ ret' = None

RemoveDuplicates ==
    /\ Rebind(remove_duplicates(queries, heap), heap)
    /\ op' = Call("remove_duplicates", None, None, Len(queries), <<>>)
    /\ ret' = None

\* the driver's scoring step: queries.queries[i].fitness = f
SetFitness(i, f) ==
    /\ i \in 1 .. Len(queries)
    /\ heap' = [heap EXCEPT ![queries[i]].fitness = f]
    /\ op' = Call("set_fitness", i, None, Len(queries), <<>>)
    /\ ret' = None
    /\ UNCHANGED <<queries, individuals, shared>>

\* a caller mutating one individual: queries.queries[i].mutate(words)
MutateOne(i, t) ==
    /\ i \in 1 .. Len(queries)
    /\ heap' = [heap EXCEPT ![queries[i]].terms = t]
    /\ op' = Call("query_mutate", i, None, Len(queries), <<>>)
    /\ ret' = None
    /\ UNCHANGED <<queries, individuals, shared>>

Next ==
    \/ Size
    \/ SortedQueries
    \/ AverageScore
    \/ \E mode \in Modes : Recombine(mode)
    \/ Mutate
    \/ Select
    \/ \E k \in -1 .. Len(queries) + 1 : RandomPurge(k)
    \/ RemoveDuplicates
    \/ \E i \in 1 .. Len(queries), f \in Fitness : SetFitness(i, f)
    \/ \E i \in 1 .. Len(queries), t \in mutations : MutateOne(i, t)

\* every sequence of calls on every population
Spec == Init /\ [][Next]_vars

\* one call on every population: the contract of each operation
Constructed == op.name = "init"

NextCall ==
    \/ Constructed /\ Size
    \/ Constructed /\ SortedQueries
    \/ Constructed /\ AverageScore
    \/ Constructed /\ \E mode \in Modes : Recombine(mode)
    \/ Constructed /\ Mutate
    \/ Constructed /\ Select
    \/ Constructed /\ \E k \in -1 .. Len(queries) + 1 : RandomPurge(k)
    \/ Constructed /\ RemoveDuplicates
    \/ Constructed /\ \E i \in 1 .. Len(queries), f \in Fitness : SetFitness(i, f)
    \/ Constructed /\ \E i \in 1 .. Len(queries), t \in mutations : MutateOne(i, t)

SpecCall == Init /\ [][NextCall]_vars

\* sequences of calls that read or change fitness, on queries of one fixed term
InitScore == Construct({<<"x">>}, Fitness)

NextScore ==
    \/ SortedQueries
    \/ \E mode \in Modes : Recombine(mode)
    \/ Select
    \/ RemoveDuplicates
    \/ \E i \in 1 .. Len(queries), f \in Fitness : SetFitness(i, f)

SpecScore == InitScore /\ [][NextScore]_vars

\* sequences of calls that read or change terms, on queries of one fixed fitness
InitTerms == Construct(TermSeqs, {0})

NextTerms ==
    \/ \E mode \in Modes : Recombine(mode)
    \/ RemoveDuplicates
    \/ \E i \in 1 .. Len(queries), t \in mutations : MutateOne(i, t)

SpecTerms == InitTerms /\ [][NextTerms]_vars

TypeOK ==
    /\ Range(queries) \subseteq 1 .. MaxObjs
    /\ DOMAIN heap = Range(queries) \cup Range(individuals)
    /\ Len(queries) <= MaxPop
    /\ \A i, j \in 1 .. Len(queries) : queries[i] = queries[j] => i = j
    /\ shared => individuals = queries

\* ---------------------------------------------------------------- properties
\* a is b without some of its elements, the others in b's order
IsSubsequence(a, b) ==
    \E f \in [1 .. Len(a) -> 1 .. Len(b)] :
        /\ \A i, j \in 1 .. Len(a) : i < j => f[i] < f[j]
        /\ \A i \in 1 .. Len(a) : a[i] = b[f[i]]

\* the elements of q at the positions in P, in q's order
AtPositions(q, P) ==
    LET pick[i \in 0 .. Len(q)] ==
            IF i = 0 THEN <<>>
            ELSE IF i \in P THEN Append(pick[i - 1], q[i]) ELSE pick[i - 1]
    IN  pick[Len(q)]

\* the sum of the fitness values of the individuals of q
TotalFitness(q, h) ==
    LET total[i \in 0 .. Len(q)] ==
            IF i = 0 THEN 0 ELSE h[q[Len(q) + 1 - i]].fitness + total[i - 1]
    IN  total[Len(q)]

PopulationUnchanged == UNCHANGED <<queries, individuals, shared, heap>>

\* C1: select() leaves exactly the individuals whose fitness is strictly greater
\* than the minimum fitness of the population before the call, in their previous
\* order; a population of one fitness value is empty afterwards.
SelectKeepsAboveMinimum ==
    [][op'.name = "select" =>
         /\ op'.outcome = None
         /\ queries' = AtPositions(queries,
                {i \in 1 .. Len(queries) :
                    \E j \in 1 .. Len(queries) :
                        heap[queries[j]].fitness < heap[queries[i]].fitness})
         /\ (\A i, j \in 1 .. Len(queries) :
                heap[queries[i]].fitness = heap[queries[j]].fitness)
            => queries' = <<>>]_vars

\* three individuals, two of them tied for the lowest fitness, one survivor
SelectRemovedTie ==
    /\ op.name = "select"
    /\ op.n = 3
    /\ Len(queries) = 1
    /\ individuals = <<1, 2, 3>>
    /\ \E i, j \in {1, 2, 3} \ Range(queries) :
          i # j /\ heap[i].fitness = heap[j].fitness

MutateFiltersEmpty ==
    [][op'.name = "mutate" =>
         /\ op'.outcome = None
         /\ Len(op'.sizes) = Len(queries)
         /\ queries' = AtPositions(queries,
                {i \in 1 .. Len(queries) : op'.sizes[i] > 0})
         /\ \A j \in 1 .. Len(queries') : size_of(heap'[queries'[j]]) > 0]_vars

\* three individuals mutated, the second one left without terms and removed
MutateRemovedEmpty ==
    /\ op.name = "mutate"
    /\ op.n = 3
    /\ op.sizes[1] > 0 /\ op.sizes[2] = 0 /\ op.sizes[3] > 0
    /\ queries = <<1, 3>>

DedupKeepsFirstByTerms ==
    [][op'.name = "remove_duplicates" =>
         /\ op'.outcome = None
         /\ queries' = AtPositions(queries,
                {i \in 1 .. Len(queries) :
                    \A j \in 1 .. i - 1 :
                        heap[queries[j]].terms # heap[queries[i]].terms})
         /\ \A i, j \in 1 .. Len(queries') :
               heap'[queries'[i]].terms = heap'[queries'[j]].terms => i = j]_vars

\* [A, B, C] with A and B of the same terms and different fitness: [A, C] is left
DedupDroppedSecond ==
    /\ op.name = "remove_duplicates"
    /\ individuals = <<1, 2, 3>>
    /\ queries = <<1, 3>>
    /\ heap[1].terms = heap[2].terms
    /\ heap[1].fitness < heap[2].fitness
    /\ heap[3].terms # heap[1].terms

\* C6: random_purge(k) with k greater than the population size raises and leaves
\* the population as it was; with 0 <= k <= size it leaves size - k individuals,
\* a subsequence of the population before the call.
PurgeContract ==
    [][op'.name = "random_purge" =>
         LET k == op'.arg
             n == Len(queries)
         IN  /\ k > n => /\ op'.outcome # None
                         /\ PopulationUnchanged
             /\ k \in 0 .. n => /\ op'.outcome = None
                                /\ Len(queries') = n - k
                                /\ IsSubsequence(queries', queries)
                                /\ k = n => queries' = <<>>]_vars

\* random_purge(k) refused on a population smaller than k
PurgeRaised ==
    /\ op.name = "random_purge"
    /\ op.n >= 1
    /\ op.arg = op.n + 1
    /\ op.outcome = "ValueError"
    /\ Len(queries) = op.n

\* C7: recombine(mode) with an unrecognised mode raises to the caller and leaves
\* the population as it was.
UnknownModeRaises ==
    [][(op'.name = "recombine" /\ op'.arg # "CLONE") =>
         /\ op'.outcome # None
         /\ PopulationUnchanged]_vars

\* recombine with an unrecognised mode, raised on a population of two
UnknownModeRaised ==
    /\ op.name = "recombine"
    /\ op.arg = "OTHER"
    /\ op.outcome = "TypeError"
    /\ op.n = 2
    /\ Len(queries) = 2

\* C8: average_score() returns 0.0 on the empty population and otherwise the sum
\* of the fitness values divided by their number; the population stays as it was.
AverageIsMean ==
    [][op'.name = "average_score" =>
         /\ op'.outcome = None
         /\ PopulationUnchanged
         /\ IF Len(queries) = 0 THEN ret' = <<0, 1>>
            ELSE /\ ret'[2] > 0
                 /\ ret'[1] * Len(queries) = ret'[2] * TotalFitness(queries, heap)
                 /\ \A d \in 2 .. ret'[2] : ~(ret'[1] % d = 0 /\ ret'[2] % d = 0)]_vars

\* fitness values [0, 1]: the average is 1/2
AverageOfTwo ==
    /\ op.name = "average_score"
    /\ Len(queries) = 2
    /\ heap[queries[1]].fitness = 0
    /\ heap[queries[2]].fitness = 1
    /\ ret = <<1, 2>>

QueriesIsIndividuals == queries = individuals
====
